---- MODULE Spec2Model ----
(***************************************************************************)
(* A model of the 2-D ideal-MHD finite-volume solver (HLL fluxes, MUSCL    *)
(* minmod reconstruction, periodic halo, GLM divergence cleaning).         *)
(*                                                                         *)
(* Numbers.  A C++ double is modelled as a decimal fixed-point number:     *)
(* the integer x stands for x / SCALE.  Every operation rounds its exact   *)
(* result to the nearest representable value (ties away from zero), a      *)
(* result whose magnitude exceeds MAXF overflows to an infinity, and the   *)
(* three IEEE specials +inf, -inf and NaN are the values PInf, NInf, NaN.  *)
(***************************************************************************)
EXTENDS Integers, Sequences, FiniteSets, TLC

\* ------------------------------------------------------------------------
\* double arithmetic
\* ------------------------------------------------------------------------

\* one unit in the last place is 1/SCALE
SCALE == 1000
\* largest finite magnitude
MAXF == 1000000
PInf == 4 * MAXF
NInf == 0 - PInf
NaN == 5 * MAXF

IsFin(x) == NInf < x /\ x < PInf
IsNaN(x) == x = NaN
AbsI(x) == IF x < 0 THEN 0 - x ELSE x
SgnI(x) == IF x < 0 THEN 0 - 1 ELSE IF x > 0 THEN 1 ELSE 0

\* an exact result m (an integer number of units) as a double
Pack(m) == IF m > MAXF THEN PInf ELSE IF m < 0 - MAXF THEN NInf ELSE m

Neg(a) == IF IsFin(a) THEN 0 - a ELSE IF a = PInf THEN NInf ELSE IF a = NInf THEN PInf ELSE NaN

Add(a, b) ==
    IF IsNaN(a) \/ IsNaN(b) THEN NaN
    ELSE IF IsFin(a) /\ IsFin(b) THEN Pack(a + b)
    ELSE IF IsFin(a) THEN b
    ELSE IF IsFin(b) THEN a
    ELSE IF a = b THEN a ELSE NaN

Sub(a, b) == Add(a, Neg(b))

\* a*b/SCALE for 0 <= a, b <= MAXF, rounded to nearest, without overflowing
MulMag(a, b) == (a \div SCALE) * b + (((a % SCALE) * b + SCALE \div 2) \div SCALE)

Mul(a, b) ==
    IF IsNaN(a) \/ IsNaN(b) THEN NaN
    ELSE IF IsFin(a) /\ IsFin(b) THEN Pack(SgnI(a) * SgnI(b) * MulMag(AbsI(a), AbsI(b)))
    ELSE IF a = 0 \/ b = 0 THEN NaN
    ELSE IF SgnI(a) * SgnI(b) > 0 THEN PInf ELSE NInf

\* a*SCALE/b for 0 <= a <= MAXF, 0 < b <= MAXF, rounded to nearest
DivMag(a, b) == (a \div b) * SCALE + (((a % b) * SCALE + b \div 2) \div b)

Div(a, b) ==
    IF IsNaN(a) \/ IsNaN(b) THEN NaN
    ELSE IF IsFin(a) /\ IsFin(b) THEN
        IF b = 0 THEN (IF a = 0 THEN NaN ELSE IF a > 0 THEN PInf ELSE NInf)
        ELSE Pack(SgnI(a) * SgnI(b) * DivMag(AbsI(a), AbsI(b)))
    ELSE IF IsFin(a) THEN 0
    ELSE IF IsFin(b) THEN (IF SgnI(a) * (IF b < 0 THEN 0 - 1 ELSE 1) > 0 THEN PInf ELSE NInf)
    ELSE NaN

\* a < b, false when either is NaN
Lt(a, b) == ~IsNaN(a) /\ ~IsNaN(b) /\ a < b
Le(a, b) == ~IsNaN(a) /\ ~IsNaN(b) /\ a <= b
\* std::min(a,b) is (b < a) ? b : a and std::max(a,b) is (a < b) ? b : a
StdMin(a, b) == IF Lt(b, a) THEN b ELSE a
StdMax(a, b) == IF Lt(a, b) THEN b ELSE a
\* std::abs
Fabs(a) == IF IsNaN(a) THEN NaN ELSE IF a < 0 THEN Neg(a) ELSE a

RECURSIVE ISqrtIn(_, _, _)
\* the largest r in lo..hi with r*r <= n
ISqrtIn(n, lo, hi) ==
    IF lo >= hi THEN lo
    ELSE LET mid == (lo + hi + 1) \div 2
         IN IF mid * mid <= n THEN ISqrtIn(n, mid, hi) ELSE ISqrtIn(n, lo, mid - 1)

\* sqrt
Sqrt(a) ==
    IF IsNaN(a) \/ a < 0 THEN NaN
    ELSE IF a = PInf THEN PInf
    ELSE LET n == a * SCALE
             r == ISqrtIn(n, 0, 31622)
         IN IF n - r * r > r THEN r + 1 ELSE r


\* ------------------------------------------------------------------------
\* constants of solver.cpp
\* ------------------------------------------------------------------------

ONE == SCALE
HALF == SCALE \div 2
TWO == 2 * SCALE
\* magnetic diffusivity 0.001
ETA == 1
\* GLM wave speed 0.8
CH == 800
\* GLM damping coefficient 0.01
CR == 10
gamma_gas == Div(5 * SCALE, 3 * SCALE)
\* the positivity floor 1e-10 of the update: a small positive value, two units
\* in the last place, so that positive values below the floor exist
FLOOR == 2
\* the initial 1e10 of the CFL reduction: the largest finite value
DT_HUGE == MAXF
\* the default cfl_number 0.2
CFL_DEFAULT == 200

\* ------------------------------------------------------------------------
\* grid.cpp: Grid and FlowField
\* ------------------------------------------------------------------------

FieldNames == {"rho", "u", "v", "p", "e", "bx", "by", "psi"}
PrimNames == {"rho", "u", "v", "p", "bx", "by", "psi"}

Cells(nx, ny) == (0 .. nx - 1) \X (0 .. ny - 1)
Interior(nx, ny) == (1 .. nx - 2) \X (1 .. ny - 2)

\* the exception a std::vector constructor throws for a size that, converted
\* to size_t, exceeds max_size()
VectorTooLong == "length_error"

\* Grid::Grid: the member initialisers run before the body, data last; the
\* inner vector (ny_ elements) is built before the outer one (nx_ rows)
GridCtor(nx_, ny_, dx_, dy_, x0_, y0_) ==
    IF ny_ < 0 \/ nx_ < 0 THEN [ok |-> FALSE, exc |-> VectorTooLong]
    ELSE IF nx_ < 3 \/ ny_ < 3 THEN [ok |-> FALSE, exc |-> "invalid_argument"]
    ELSE [ok |-> TRUE,
          val |-> [nx |-> nx_, ny |-> ny_, dx |-> dx_, dy |-> dy_, x0 |-> x0_, y0 |-> y0_,
                   data |-> [c \in Cells(nx_, ny_) |-> 0]]]

\* FlowField::FlowField: the eight Grid members are constructed first (rho
\* first), then the body checks the size
FlowFieldCtor(nx, ny, dx, dy, x0, y0) ==
    LET g == GridCtor(nx, ny, dx, dy, x0, y0)
    IN IF ~g.ok THEN g
       ELSE IF nx < 3 \/ ny < 3 THEN [ok |-> FALSE, exc |-> "invalid_argument"]
       ELSE [ok |-> TRUE, val |-> [f \in FieldNames |-> g.val]]

\* ------------------------------------------------------------------------
\* solver.cpp: helpers
\* ------------------------------------------------------------------------

\* laplacian(g, i, j)
laplacian(g, i, j) ==
    Add(Div(Add(Sub(g.data[<<i + 1, j>>], Mul(TWO, g.data[<<i, j>>])), g.data[<<i - 1, j>>]),
            Mul(g.dx, g.dx)),
        Div(Add(Sub(g.data[<<i, j + 1>>], Mul(TWO, g.data[<<i, j>>])), g.data[<<i, j - 1>>]),
            Mul(g.dy, g.dy)))

\* the sign of the product a*b, which the rounding of a double keeps
SignOfProduct(a, b) ==
    IF IsNaN(a) \/ IsNaN(b) THEN NaN
    ELSE IF (a = 0 /\ ~IsFin(b)) \/ (b = 0 /\ ~IsFin(a)) THEN NaN
    ELSE SgnI(a) * SgnI(b)

\* variant: the unlimited central slope, (a + b)/2
minmod_Central(a, b) == Mul(HALF, Add(a, b))

\* variant: the argument of larger magnitude is returned
minmod_Larger(a, b) ==
    IF Le(SignOfProduct(a, b), 0) THEN 0
    ELSE IF Lt(Fabs(a), Fabs(b)) THEN b ELSE a

\* minmod(a, b): if (a*b <= 0.0) return 0.0; return |a| < |b| ? a : b
minmod(a, b) ==
    IF Le(SignOfProduct(a, b), 0) THEN 0
    ELSE IF Lt(Fabs(a), Fabs(b)) THEN a ELSE b

\* compute_fast_speed
compute_fast_speed(rho, p, Bx, By) ==
    LET cs2 == Div(Mul(gamma_gas, p), rho)
        ca2 == Div(Add(Mul(Bx, Bx), Mul(By, By)), rho)
    IN Sqrt(Add(cs2, ca2))

\* one component of the HLL average:
\* (SR*FL - SL*FR + SL*SR*(UR - UL)) / (SR - SL)
HLLAverage(SL, SR, FL, FR, UL, UR) ==
    Div(Add(Sub(Mul(SR, FL), Mul(SL, FR)), Mul(Mul(SL, SR), Sub(UR, UL))), Sub(SR, SL))

\* the psi component: CH*CH*(SR*BL - SL*BR + SL*SR*(psiR - psiL)) / (SR - SL)
HLLAveragePsi(SL, SR, BL, BR, psiL, psiR) ==
    Div(Mul(Mul(CH, CH), Add(Sub(Mul(SR, BL), Mul(SL, BR)), Mul(Mul(SL, SR), Sub(psiR, psiL)))),
        Sub(SR, SL))

\* total energy of a face state: p/(gamma-1) + 0.5*rho*(u*u+v*v) + 0.5*B2
FaceEnergy(s, B2) ==
    Add(Add(Div(s.p, Sub(gamma_gas, ONE)),
            Mul(Mul(HALF, s.rho), Add(Mul(s.u, s.u), Mul(s.v, s.v)))),
        Mul(HALF, B2))

\* the physical x-flux of one state
PhysFluxX(s, E, pt) ==
    [F_rho  |-> Mul(s.rho, s.u),
     F_momx |-> Sub(Add(Mul(Mul(s.rho, s.u), s.u), pt), Mul(s.bx, s.bx)),
     F_momy |-> Sub(Mul(Mul(s.rho, s.u), s.v), Mul(s.bx, s.by)),
     F_E    |-> Sub(Mul(Add(E, pt), s.u), Mul(s.bx, Add(Mul(s.u, s.bx), Mul(s.v, s.by)))),
     F_Bx   |-> s.psi,
     F_By   |-> Sub(Mul(s.u, s.by), Mul(s.v, s.bx)),
     F_psi  |-> Mul(Mul(CH, CH), s.bx)]

\* compute_hll_flux_x, last part: the flux selected by the signs of SL and SR
HllSelectX(L, R, SL, SR, FL, FR, EL, ER) ==
    IF Lt(0, SL) THEN FL
    ELSE IF Lt(SR, 0) THEN FR
    ELSE [F_rho  |-> HLLAverage(SL, SR, FL.F_rho, FR.F_rho, L.rho, R.rho),
          F_momx |-> HLLAverage(SL, SR, FL.F_momx, FR.F_momx, Mul(L.rho, L.u), Mul(R.rho, R.u)),
          F_momy |-> HLLAverage(SL, SR, FL.F_momy, FR.F_momy, Mul(L.rho, L.v), Mul(R.rho, R.v)),
          F_E    |-> HLLAverage(SL, SR, FL.F_E, FR.F_E, EL, ER),
          F_Bx   |-> HLLAverage(SL, SR, L.psi, R.psi, L.bx, R.bx),
          F_By   |-> HLLAverage(SL, SR, FL.F_By, FR.F_By, L.by, R.by),
          F_psi  |-> HLLAveragePsi(SL, SR, L.bx, R.bx, L.psi, R.psi)]

\* compute_hll_flux_x, middle part: the physical fluxes FL and FR
HllFluxesX(L, R, SL, SR, EL, ER, ptL, ptR) ==
    HllSelectX(L, R, SL, SR, PhysFluxX(L, EL, ptL), PhysFluxX(R, ER, ptR), EL, ER)

\* compute_hll_flux_x, first part: pressures, energies and wave speeds
HllSpeedsX(L, R, B2L, B2R, cfL, cfR) ==
    HllFluxesX(L, R,
               StdMin(Sub(L.u, cfL), Sub(R.u, cfR)),
               StdMax(Add(L.u, cfL), Add(R.u, cfR)),
               FaceEnergy(L, B2L), FaceEnergy(R, B2R),
               Add(L.p, Mul(HALF, B2L)), Add(R.p, Mul(HALF, B2R)))

\* compute_hll_flux_x
compute_hll_flux_x(L, R) ==
    HllSpeedsX(L, R,
               Add(Mul(L.bx, L.bx), Mul(L.by, L.by)),
               Add(Mul(R.bx, R.bx), Mul(R.by, R.by)),
               compute_fast_speed(L.rho, L.p, L.bx, L.by),
               compute_fast_speed(R.rho, R.p, R.bx, R.by))

\* the physical y-flux of one state
PhysFluxY(s, E, pt) ==
    [F_rho  |-> Mul(s.rho, s.v),
     F_momx |-> Sub(Mul(Mul(s.rho, s.v), s.u), Mul(s.by, s.bx)),
     F_momy |-> Sub(Add(Mul(Mul(s.rho, s.v), s.v), pt), Mul(s.by, s.by)),
     F_E    |-> Sub(Mul(Add(E, pt), s.v), Mul(s.by, Add(Mul(s.u, s.bx), Mul(s.v, s.by)))),
     F_Bx   |-> Sub(Mul(s.v, s.bx), Mul(s.u, s.by)),
     F_By   |-> s.psi,
     F_psi  |-> Mul(Mul(CH, CH), s.by)]

\* compute_hll_flux_y, last part: the flux selected by the signs of SL and SR
HllSelectY(L, R, SL, SR, FL, FR, EL, ER) ==
    IF Lt(0, SL) THEN FL
    ELSE IF Lt(SR, 0) THEN FR
    ELSE [F_rho  |-> HLLAverage(SL, SR, FL.F_rho, FR.F_rho, L.rho, R.rho),
          F_momx |-> HLLAverage(SL, SR, FL.F_momx, FR.F_momx, Mul(L.rho, L.u), Mul(R.rho, R.u)),
          F_momy |-> HLLAverage(SL, SR, FL.F_momy, FR.F_momy, Mul(L.rho, L.v), Mul(R.rho, R.v)),
          F_E    |-> HLLAverage(SL, SR, FL.F_E, FR.F_E, EL, ER),
          F_Bx   |-> HLLAverage(SL, SR, FL.F_Bx, FR.F_Bx, L.bx, R.bx),
          F_By   |-> HLLAverage(SL, SR, L.psi, R.psi, L.by, R.by),
          F_psi  |-> HLLAveragePsi(SL, SR, L.by, R.by, L.psi, R.psi)]

\* compute_hll_flux_y, middle part: the physical fluxes FL and FR
HllFluxesY(L, R, SL, SR, EL, ER, ptL, ptR) ==
    HllSelectY(L, R, SL, SR, PhysFluxY(L, EL, ptL), PhysFluxY(R, ER, ptR), EL, ER)

\* compute_hll_flux_y, first part: pressures, energies and wave speeds
HllSpeedsY(L, R, B2L, B2R, cfL, cfR) ==
    HllFluxesY(L, R,
               StdMin(Sub(L.v, cfL), Sub(R.v, cfR)),
               StdMax(Add(L.v, cfL), Add(R.v, cfR)),
               FaceEnergy(L, B2L), FaceEnergy(R, B2R),
               Add(L.p, Mul(HALF, B2L)), Add(R.p, Mul(HALF, B2R)))

\* compute_hll_flux_y
compute_hll_flux_y(L, R) ==
    HllSpeedsY(L, R,
               Add(Mul(L.bx, L.bx), Mul(L.by, L.by)),
               Add(Mul(R.bx, R.bx), Mul(R.by, R.by)),
               compute_fast_speed(L.rho, L.p, L.bx, L.by),
               compute_fast_speed(R.rho, R.p, R.bx, R.by))

\* the k-th interior cell in the order of the collapsed i, j loops
InteriorCell(g, k) == <<1 + (k \div (g.ny - 2)), 1 + (k % (g.ny - 2))>>
InteriorCount(g) == (g.nx - 2) * (g.ny - 2)

\* the candidate of interior cell c: std::min(dt_x, dt_y)
CflCell(fl, c) ==
    LET cf == compute_fast_speed(fl.rho.data[c], fl.p.data[c], fl.bx.data[c], fl.by.data[c])
        dt_x == Div(fl.rho.dx, Add(Fabs(fl.u.data[c]), cf))
        dt_y == Div(fl.rho.dy, Add(Fabs(fl.v.data[c]), cf))
    IN StdMin(dt_x, dt_y)

\* the reduction loop over the interior cells k .. end-1 of one column, in
\* the order of the loop: dt_min = std::min(dt_min, std::min(dt_x, dt_y))
RECURSIVE CflReduceColumn(_, _, _, _)
CflReduceColumn(fl, k, end, dt_min) ==
    IF k >= end THEN dt_min
    ELSE CflReduceColumn(fl, k + 1, end, StdMin(dt_min, CflCell(fl, InteriorCell(fl.rho, k))))

\* the reduction loop from interior cell k on (k the first cell of a column),
\* column after column; the minimum after a column is a computed value m
\* before the next column starts
RECURSIVE CflReduce(_, _, _)
CflReduce(fl, k, dt_min) ==
    IF k >= InteriorCount(fl.rho) THEN dt_min
    ELSE CHOOSE r \in {CflReduce(fl, k + fl.rho.ny - 2, m) :
                          m \in {CflReduceColumn(fl, k, k + fl.rho.ny - 2, dt_min)}} : TRUE

\* the timestep bound of the GLM wave speed: min(dx, dy) / CH
GlmBound(fl) == Div(StdMin(fl.rho.dx, fl.rho.dy), CH)

\* variant: the physical minimum alone, without the GLM bound
compute_cfl_timestep_NoGlm(fl, cfl_number) ==
    LET scanned == CflReduce(fl, 0, DT_HUGE)
        dt_min == IF Lt(ONE, scanned) THEN GlmBound(fl) ELSE scanned
    IN Mul(cfl_number, dt_min)

\* compute_cfl_timestep(flow, cfl_number)
compute_cfl_timestep(fl, cfl_number) ==
    LET scanned == CflReduce(fl, 0, DT_HUGE)
        dt_glm == GlmBound(fl)
        dt_min == IF Lt(ONE, scanned) THEN GlmBound(fl) ELSE scanned
    IN Mul(cfl_number, StdMin(dt_min, dt_glm))

\* the centred divergence of compute_divergence_errors at an interior cell
CentredDivB(fl, i, j) ==
    Add(Div(Sub(fl.bx.data[<<i + 1, j>>], fl.bx.data[<<i - 1, j>>]), Mul(TWO, fl.bx.dx)),
        Div(Sub(fl.by.data[<<i, j + 1>>], fl.by.data[<<i, j - 1>>]), Mul(TWO, fl.bx.dy)))

RECURSIVE DivReduce(_, _, _)
\* the max and sum reductions of compute_divergence_errors over the cells k..
DivReduce(fl, k, acc) ==
    IF k >= InteriorCount(fl.bx) THEN acc
    ELSE LET c == InteriorCell(fl.bx, k)
             abs_divB == Fabs(CentredDivB(fl, c[1], c[2]))
         IN DivReduce(fl, k + 1, [max_divB |-> StdMax(acc.max_divB, abs_divB),
                                  L1_divB |-> Add(acc.L1_divB, abs_divB),
                                  count |-> acc.count + 1])

\* compute_divergence_errors: the pair (max_divB, L1_divB / count)
compute_divergence_errors(fl) ==
    LET r == DivReduce(fl, 0, [max_divB |-> 0, L1_divB |-> 0, count |-> 0])
    IN <<r.max_divB, Div(r.L1_divB, r.count * SCALE)>>

\* ------------------------------------------------------------------------
\* solver.cpp: update_level
\* ------------------------------------------------------------------------

\* variant: x-slopes computed in the interior rows only
SlopeX_InteriorRows(g) ==
    [c \in Cells(g.nx, g.ny) |->
        IF 1 <= c[1] /\ c[1] <= g.nx - 2 /\ 1 <= c[2] /\ c[2] <= g.ny - 2
        THEN minmod(Sub(g.data[c], g.data[<<c[1] - 1, c[2]>>]),
                    Sub(g.data[<<c[1] + 1, c[2]>>], g.data[c]))
        ELSE 0]

\* the limited x-slopes of one field: zero in the columns i = 0 and i = nx-1
SlopeX(g) ==
    [c \in Cells(g.nx, g.ny) |->
        IF 1 <= c[1] /\ c[1] <= g.nx - 2
        THEN minmod(Sub(g.data[c], g.data[<<c[1] - 1, c[2]>>]),
                    Sub(g.data[<<c[1] + 1, c[2]>>], g.data[c]))
        ELSE 0]

\* the limited y-slopes of one field: zero in the rows j = 0 and j = ny-1
SlopeY(g) ==
    [c \in Cells(g.nx, g.ny) |->
        IF 1 <= c[2] /\ c[2] <= g.ny - 2
        THEN minmod(Sub(g.data[c], g.data[<<c[1], c[2] - 1>>]),
                    Sub(g.data[<<c[1], c[2] + 1>>], g.data[c]))
        ELSE 0]

\* the state of cell c extrapolated to its upper face: value + 0.5*slope
FacePlus(fl, s, c) ==
    [rho |-> Add(fl.rho.data[c], Mul(HALF, s.rho[c])),
     u   |-> Add(fl.u.data[c], Mul(HALF, s.u[c])),
     v   |-> Add(fl.v.data[c], Mul(HALF, s.v[c])),
     p   |-> Add(fl.p.data[c], Mul(HALF, s.p[c])),
     bx  |-> Add(fl.bx.data[c], Mul(HALF, s.bx[c])),
     by  |-> Add(fl.by.data[c], Mul(HALF, s.by[c])),
     psi |-> Add(fl.psi.data[c], Mul(HALF, s.psi[c]))]
\* the state of cell c extrapolated to its lower face: value - 0.5*slope
FaceMinus(fl, s, c) ==
    [rho |-> Sub(fl.rho.data[c], Mul(HALF, s.rho[c])),
     u   |-> Sub(fl.u.data[c], Mul(HALF, s.u[c])),
     v   |-> Sub(fl.v.data[c], Mul(HALF, s.v[c])),
     p   |-> Sub(fl.p.data[c], Mul(HALF, s.p[c])),
     bx  |-> Sub(fl.bx.data[c], Mul(HALF, s.bx[c])),
     by  |-> Sub(fl.by.data[c], Mul(HALF, s.by[c])),
     psi |-> Sub(fl.psi.data[c], Mul(HALF, s.psi[c]))]

\* the four face fluxes of the interior cell (i, j)
flux_xp(fl, sx, i, j) == compute_hll_flux_x(FacePlus(fl, sx, <<i, j>>), FaceMinus(fl, sx, <<i + 1, j>>))
\* variant: the left state of the lower x-face extrapolated with the wrong sign
flux_xm_WrongSide(fl, sx, i, j) ==
    compute_hll_flux_x(FaceMinus(fl, sx, <<i - 1, j>>), FaceMinus(fl, sx, <<i, j>>))
flux_xm(fl, sx, i, j) == compute_hll_flux_x(FacePlus(fl, sx, <<i - 1, j>>), FaceMinus(fl, sx, <<i, j>>))
flux_yp(fl, sy, i, j) == compute_hll_flux_y(FacePlus(fl, sy, <<i, j>>), FaceMinus(fl, sy, <<i, j + 1>>))
flux_ym(fl, sy, i, j) == compute_hll_flux_y(FacePlus(fl, sy, <<i, j - 1>>), FaceMinus(fl, sy, <<i, j>>))

\* U - dt/dx * (Fxp - Fxm) - dt/dy * (Fyp - Fym)
FluxDifference(U, dt, g, Fxp, Fxm, Fyp, Fym) ==
    Sub(Sub(U, Mul(Div(dt, g.dx), Sub(Fxp, Fxm))), Mul(Div(dt, g.dy), Sub(Fyp, Fym)))

\* the minimum total energy: e_new if it is at least ke + me + 1e-10
EnergyClamp(e_new, ke_temp, me_temp) ==
    IF Lt(e_new, Add(Add(ke_temp, me_temp), FLOOR)) THEN Add(Add(ke_temp, me_temp), FLOOR)
    ELSE e_new

\* variant: the update without the floor
EnsurePhysical_NoFloor(x) == x

\* the floor on density and energy: std::max(x, 1e-10)
EnsurePhysical(x) == StdMax(x, FLOOR)

\* one iteration of the update loop, last part: the energy correction, the
\* diffusion terms and the floors, from the flux-updated values
CellFinish(fl, dt, nu, i, j, rho_new, momx0, momy0, e0, bx0, by0, psi_new) ==
    LET c == <<i, j>>
        rho == fl.rho.data[c]
        u == fl.u.data[c]
        v == fl.v.data[c]
        Bx == fl.bx.data[c]
        By == fl.by.data[c]
        ke_temp == Mul(Mul(HALF, rho_new), Add(Mul(u, u), Mul(v, v)))
        me_temp == Mul(HALF, Add(Mul(Bx, Bx), Mul(By, By)))
        visc == Lt(0, nu)
    IN [rho  |-> EnsurePhysical(rho_new),
        momx |-> IF visc THEN Add(momx0, Mul(Mul(Mul(dt, nu), rho), laplacian(fl.u, i, j))) ELSE momx0,
        momy |-> IF visc THEN Add(momy0, Mul(Mul(Mul(dt, nu), rho), laplacian(fl.v, i, j))) ELSE momy0,
        e    |-> EnsurePhysical(EnergyClamp(e0, ke_temp, me_temp)),
        bx   |-> IF ETA > 0 THEN Add(bx0, Mul(Mul(dt, ETA), laplacian(fl.bx, i, j))) ELSE bx0,
        by   |-> IF ETA > 0 THEN Add(by0, Mul(Mul(dt, ETA), laplacian(fl.by, i, j))) ELSE by0,
        psi  |-> psi_new,
        rho_raw |-> rho_new,
        energy_warned |-> Lt(e0, Add(Add(ke_temp, me_temp), FLOOR)),
        e_raw |-> EnergyClamp(e0, ke_temp, me_temp)]

\* one iteration of the update loop, middle part: the flux differences
CellFluxUpdate(fl, dt, nu, i, j, xp, xm, yp, ym) ==
    CellFinish(fl, dt, nu, i, j,
        FluxDifference(fl.rho.data[<<i, j>>], dt, fl.rho, xp.F_rho, xm.F_rho, yp.F_rho, ym.F_rho),
        FluxDifference(Mul(fl.rho.data[<<i, j>>], fl.u.data[<<i, j>>]), dt, fl.rho,
                       xp.F_momx, xm.F_momx, yp.F_momx, ym.F_momx),
        FluxDifference(Mul(fl.rho.data[<<i, j>>], fl.v.data[<<i, j>>]), dt, fl.rho,
                       xp.F_momy, xm.F_momy, yp.F_momy, ym.F_momy),
        FluxDifference(fl.e.data[<<i, j>>], dt, fl.rho, xp.F_E, xm.F_E, yp.F_E, ym.F_E),
        FluxDifference(fl.bx.data[<<i, j>>], dt, fl.rho, xp.F_Bx, xm.F_Bx, yp.F_Bx, ym.F_Bx),
        FluxDifference(fl.by.data[<<i, j>>], dt, fl.rho, xp.F_By, xm.F_By, yp.F_By, ym.F_By),
        FluxDifference(fl.psi.data[<<i, j>>], dt, fl.rho, xp.F_psi, xm.F_psi, yp.F_psi, ym.F_psi))

\* one iteration of the update loop: the new conserved values of cell (i, j)
CellUpdate(fl, sx, sy, dt, nu, i, j) ==
    CellFluxUpdate(fl, dt, nu, i, j,
        flux_xp(fl, sx, i, j), flux_xm(fl, sx, i, j), flux_yp(fl, sy, i, j), flux_ym(fl, sy, i, j))

\* variant: the pressure recovered without subtracting the magnetic energy
Primitive_NoMagnetic(n) ==
    LET u == Div(n.momx, n.rho)
        v == Div(n.momy, n.rho)
        ke == Mul(Mul(HALF, n.rho), Add(Mul(u, u), Mul(v, v)))
        ie == Sub(n.e, ke)
    IN [rho |-> n.rho, u |-> u, v |-> v, bx |-> n.bx, by |-> n.by, e |-> n.e,
        p |-> Mul(Sub(gamma_gas, ONE), StdMax(ie, FLOOR)),
        ie_warned |-> Lt(ie, 0)]

\* one iteration of the commit loop: the primitive values of an interior cell
\* from its new conserved values n
Primitive(n) ==
    LET u == Div(n.momx, n.rho)
        v == Div(n.momy, n.rho)
        ke == Mul(Mul(HALF, n.rho), Add(Mul(u, u), Mul(v, v)))
        me == Mul(HALF, Add(Mul(n.bx, n.bx), Mul(n.by, n.by)))
        ie == Sub(Sub(n.e, ke), me)
    IN [rho |-> n.rho, u |-> u, v |-> v, bx |-> n.bx, by |-> n.by, e |-> n.e,
        p |-> Mul(Sub(gamma_gas, ONE), StdMax(ie, FLOOR)),
        ie_warned |-> Lt(ie, 0)]

\* the x loop of the periodic boundary: columns 0 and nx-1 of one array
PeriodicX(d, nx, ny) ==
    LET left_src == (nx + 0 - 2) % nx
        right_src == (nx - 1 + 2) % nx
    IN [c \in Cells(nx, ny) |->
           IF c[1] = nx - 1 THEN d[<<right_src, c[2]>>]
           ELSE IF c[1] = 0 THEN d[<<left_src, c[2]>>]
           ELSE d[c]]

\* the y loop of the periodic boundary: rows 0 and ny-1 of one array
PeriodicY(d, nx, ny) ==
    LET bot_src == (ny + 0 - 2) % ny
        top_src == (ny - 1 + 2) % ny
    IN [c \in Cells(nx, ny) |->
           IF c[2] = ny - 1 THEN d[<<c[1], top_src>>]
           ELSE IF c[2] = 0 THEN d[<<c[1], bot_src>>]
           ELSE d[c]]

\* divB_new of the GLM loop at (i, j): centred, at wrapped indices, of the
\* temporary arrays bx_new and by_new
GlmDivB(bx_new, by_new, g, i, j) ==
    LET ip == (i + 1) % g.nx
        im == (i - 1 + g.nx) % g.nx
        jp == (j + 1) % g.ny
        jm == (j - 1 + g.ny) % g.ny
    IN Add(Div(Sub(bx_new[<<ip, j>>], bx_new[<<im, j>>]), Mul(TWO, g.dx)),
           Div(Sub(by_new[<<i, jp>>], by_new[<<i, jm>>]), Mul(TWO, g.dy)))

\* variant: the damping term added instead of subtracted
GlmSource_Growing(psi_pre, dt, divB_new) ==
    Add(Sub(psi_pre, Mul(Mul(Mul(dt, CH), CH), divB_new)), Mul(Mul(dt, CR), psi_pre))

\* the GLM source: psi_new - dt*CH*CH*divB_new - dt*CR*psi_new
GlmSource(psi_pre, dt, divB_new) ==
    Sub(Sub(psi_pre, Mul(Mul(Mul(dt, CH), CH), divB_new)), Mul(Mul(dt, CR), psi_pre))

\* variant: the caller's timestep applied as given
ClampDt_Unclamped(fl, dt) == dt

\* the timestep the update applies: std::min(dt, compute_cfl_timestep(flow))
ClampDt(fl, dt) == StdMin(dt, compute_cfl_timestep(fl, CFL_DEFAULT))

\* update_level, last part: the commit loop, the periodic boundary and the
\* GLM loop, from the new conserved values of the interior cells
UpdateFinish(fl, dt, new, prim) ==
    LET g == fl.rho
        nx == g.nx
        ny == g.ny
        all == Cells(nx, ny)
        inner == Interior(nx, ny)
        psi_new == [c \in all |-> IF c \in inner THEN new[c].psi ELSE fl.psi.data[c]]
        committed == [f \in FieldNames |->
                         IF f = "psi" THEN fl.psi.data
                         ELSE [c \in all |-> IF c \in inner THEN prim[c][f] ELSE fl[f].data[c]]]
        wrapped == [f \in FieldNames |-> PeriodicY(PeriodicX(committed[f], nx, ny), nx, ny)]
        divB_new == [c \in all |->
                        GlmDivB([d \in all |-> IF d \in inner THEN new[d].bx ELSE fl.bx.data[d]],
                                [d \in all |-> IF d \in inner THEN new[d].by ELSE fl.by.data[d]],
                                g, c[1], c[2])]
    IN [flow |-> [f \in FieldNames |->
                    [fl[f] EXCEPT !.data =
                        IF f = "psi" THEN [c \in all |-> GlmSource(psi_new[c], dt, divB_new[c])]
                        ELSE wrapped[f]]],
        dt |-> dt,
        psi_new |-> psi_new,
        divB_new |-> divB_new,
        rho_floored |-> \E c \in inner : new[c].rho # new[c].rho_raw,
        e_floored |-> \E c \in inner : new[c].e # new[c].e_raw,
        energy_warned |-> \E c \in inner : new[c].energy_warned,
        ie_warned |-> \E c \in inner : prim[c].ie_warned]

\* update_level, the commit loop: the primitive values of the interior cells
UpdateCommit(fl, dt, new) ==
    UpdateFinish(fl, dt, new, [c \in Interior(fl.rho.nx, fl.rho.ny) |-> Primitive(new[c])] @@ <<>>)

\* update_level, the update loop over the interior cells
UpdateCells(fl, dt, nu, sx, sy) ==
    UpdateCommit(fl, dt,
        [c \in Interior(fl.rho.nx, fl.rho.ny) |-> CellUpdate(fl, sx, sy, dt, nu, c[1], c[2])] @@ <<>>)

\* update_level, the slope loops
UpdateSlopes(fl, dt, nu) ==
    UpdateCells(fl, dt, nu,
        [f \in PrimNames |-> SlopeX(fl[f])] @@ <<>>,
        [f \in PrimNames |-> SlopeY(fl[f])] @@ <<>>)

\* update_level(flow, dt, nu): the FlowField after the step, with the values
\* of the step's temporaries
update_level(fl, dt_in, nu) == UpdateSlopes(fl, ClampDt(fl, dt_in), nu)

\* solve_MHD(flow, dt, nu): returns void
solve_MHD(fl, dt, nu) == update_level(fl, dt, nu)

\* ------------------------------------------------------------------------
\* the caller: construction, seeding (physics.cpp) and stepping (main.cpp)
\* ------------------------------------------------------------------------

\* bounds of the model
MaxNx == 5
MaxSteps == 2

\* total energy as the seeders compute it: ke + ie + be
SeedEnergy(rho, u, v, p, bx, by) ==
    Add(Add(Mul(Mul(HALF, rho), Add(Mul(u, u), Mul(v, v))), Div(p, Sub(gamma_gas, ONE))),
        Mul(HALF, Add(Mul(bx, bx), Mul(by, by))))

\* the multiple of the amplitude a seed pattern adds at index k of its axis
Shape(shape, k) ==
    IF shape = "hump" THEN (IF k = 1 THEN 1 ELSE IF k = 2 THEN 2 ELSE 0)
    ELSE IF shape = "alt" THEN k % 2
    ELSE 0

\* a seeder: every cell of every field is written; field sd.f gets the base
\* value plus a pattern along one axis, and e is the total energy of the cell
SeedData(fl, sd) ==
    LET g == fl.rho
        val(f, c) == IF f = sd.f
                     THEN sd.base[f] + sd.amp * Shape(sd.shape, IF sd.axis = "x" THEN c[1] ELSE c[2])
                     ELSE sd.base[f]
        prim == [f \in PrimNames |-> [c \in Cells(g.nx, g.ny) |-> val(f, c)]]
        raw == [f \in FieldNames |->
                  IF f = "e"
                  THEN [c \in Cells(g.nx, g.ny) |->
                           SeedEnergy(prim.rho[c], prim.u[c], prim.v[c], prim.p[c], prim.bx[c], prim.by[c])]
                  ELSE prim[f]]
    IN [f \in FieldNames |->
          [fl[f] EXCEPT !.data = IF sd.wrap THEN PeriodicY(PeriodicX(raw[f], g.nx, g.ny), g.nx, g.ny)
                                 ELSE raw[f]]]

\* the seeds of the model: uniform states at rest, and a state with one
\* field patterned along one axis, with or without a periodic halo
UniformBase(rho0, p0, bx0, by0) ==
    [rho |-> rho0, u |-> 0, v |-> 0, p |-> p0, bx |-> bx0, by |-> by0, psi |-> 0]
MovingBase == [rho |-> 1000, u |-> 300, v |-> 0 - 200, p |-> 1000, bx |-> 500, by |-> 300, psi |-> 0]
StillBase == [rho |-> 1000, u |-> 0, v |-> 0, p |-> 1000, bx |-> 500, by |-> 0, psi |-> 0]
UniformSeeds ==
    {[base |-> UniformBase(rp[1], rp[2], b[1], b[2]), f |-> "rho", axis |-> "x", shape |-> "none", amp |-> 0, wrap |-> TRUE] :
        rp \in {<<1, 1>>, <<2, 2>>, <<1000, 1>>, <<1000, 1000>>}, b \in {<<0, 0>>, <<500, 300>>}}
PatternKinds ==
    {<<MovingBase, "rho", "x", "hump">>, <<MovingBase, "u", "y", "hump">>,
     <<MovingBase, "p", "x", "alt">>, <<MovingBase, "by", "y", "hump">>,
     <<StillBase, "rho", "x", "hump">>, <<StillBase, "bx", "x", "hump">>,
     <<StillBase, "psi", "x", "alt">>, <<StillBase, "psi", "y", "hump">>}
PatternSeeds ==
    {[base |-> k[1], f |-> k[2], axis |-> k[3], shape |-> k[4], amp |-> 500, wrap |-> w] :
        k \in PatternKinds, w \in BOOLEAN}
Seeds == UniformSeeds \cup PatternSeeds

\* the arguments of the calls
NxArgs == {0 - 1} \cup (2 .. MaxNx)
NyArgs == {2, 3, 4}
DtArgs == {50, 1000}
NuArgs == {0, 10}
SpacingDx == SCALE
SpacingDy == SCALE \div 2

NoCall == [op |-> "none"]

VARIABLES
    pc,      \* where the caller is: "new", "failed", "built", "ready"
    flow,    \* the FlowField, once constructed
    exc,     \* the exception that propagated to the caller, or "none"
    nu,      \* the caller's viscosity
    steps,   \* the number of solve_MHD calls so far
    pre,     \* the FlowField at entry to the last solver call
    last,    \* the last call of the caller, with the values of its temporaries
    ret      \* what the last call returned to the caller: {} for void

vars == <<pc, flow, exc, nu, steps, pre, last, ret>>

Init ==
    /\ pc = "new"
    /\ flow = <<>>
    /\ exc = "none"
    /\ nu \in NuArgs
    /\ steps = 0
    /\ pre = <<>>
    /\ last = NoCall
    /\ ret = {}

\* FlowField flow(nx, ny, dx, dy)
Construct(nx, ny) ==
    /\ pc = "new"
    /\ \E r \in {FlowFieldCtor(nx, ny, SpacingDx, SpacingDy, 0, 0)} :
          /\ pc' = IF r.ok THEN "built" ELSE "failed"
          /\ flow' = IF r.ok THEN r.val ELSE <<>>
          /\ exc' = IF r.ok THEN "none" ELSE r.exc
    /\ last' = [op |-> "construct", nx |-> nx, ny |-> ny]
    /\ UNCHANGED <<nu, steps, pre, ret>>

\* an initial-condition generator writes the fields
Seed(sd) ==
    /\ pc = "built"
    /\ flow' = SeedData(flow, sd)
    /\ pc' = "ready"
    /\ last' = [op |-> "seed", seed |-> sd]
    /\ UNCHANGED <<exc, nu, steps, pre, ret>>

\* solve_MHD(flow, dt, nu)
Solve(dt) ==
    /\ pc \in {"built", "ready"}
    /\ steps < MaxSteps
    /\ \E r \in {solve_MHD(flow, dt, nu)} :
          /\ flow' = r.flow
          /\ last' = [op |-> "solve", dt_in |-> dt, nu |-> nu, dt |-> r.dt,
                      psi_new |-> r.psi_new, divB_new |-> r.divB_new,
                      rho_floored |-> r.rho_floored, e_floored |-> r.e_floored,
                      energy_warned |-> r.energy_warned, ie_warned |-> r.ie_warned,
                      prev_op |-> last.op, prev_entry |-> pre]
    /\ pre' = flow
    /\ steps' = steps + 1
    /\ ret' = {}
    /\ UNCHANGED <<pc, exc, nu>>

\* the FlowField after compute_cfl_timestep(flow, cfl_number): the argument
\* is a const reference and the function writes no field
FlowAfterCfl(fl) == fl

\* variant: a diagnostic that resets psi while it measures the divergence
FlowAfterDivergence_Cleaning(fl) ==
    [fl EXCEPT !.psi.data = [c \in Cells(fl.psi.nx, fl.psi.ny) |-> 0]]

\* the FlowField after compute_divergence_errors(flow): likewise
FlowAfterDivergence(fl) == fl

\* double dt = compute_cfl_timestep(flow, cfl_number)
Estimate(cfl_number) ==
    /\ pc \in {"built", "ready"}
    /\ ret' = {compute_cfl_timestep(flow, cfl_number)}
    /\ flow' = FlowAfterCfl(flow)
    /\ pre' = flow
    /\ last' = [op |-> "cfl", cfl_number |-> cfl_number]
    /\ UNCHANGED <<pc, exc, nu, steps>>

\* auto [max_divB, L1_divB] = compute_divergence_errors(flow)
Diagnose ==
    /\ pc \in {"built", "ready"}
    /\ ret' = {compute_divergence_errors(flow)}
    /\ flow' = FlowAfterDivergence(flow)
    /\ pre' = flow
    /\ last' = [op |-> "div"]
    /\ UNCHANGED <<pc, exc, nu, steps>>

Next ==
    \/ \E nx \in NxArgs, ny \in NyArgs : Construct(nx, ny)
    \/ \E sd \in Seeds : Seed(sd)
    \/ \E dt \in DtArgs : Solve(dt)

Spec == Init /\ [][Next]_vars

\* ------------------------------------------------------------------------
\* the diagnostics interleaved with the steps (main.cpp: the time loop)
\* ------------------------------------------------------------------------

DiagNx == {3, 4}
DiagNy == {3}
DiagSeeds == {sd \in PatternSeeds : sd.wrap}
DiagDt == {50}
DiagCfl == {CFL_DEFAULT}

NextDiag ==
    \/ \E nx \in DiagNx, ny \in DiagNy : Construct(nx, ny)
    \/ \E sd \in DiagSeeds : Seed(sd)
    \/ \E dt \in DiagDt : Solve(dt)
    \/ \E c \in DiagCfl : Estimate(c)
    \/ Diagnose

SpecDiag == Init /\ [][NextDiag]_vars

\* ------------------------------------------------------------------------
\* compute_cfl_timestep on its own
\* ------------------------------------------------------------------------

\* the spacings of the grids the estimate is taken on
CflSpacings == {<<SCALE, SCALE \div 2>>, <<SCALE, SCALE>>}
CflSeeds ==
    Seeds \cup
    {[base |-> UniformBase(1000, p0, 0, 0), f |-> "rho", axis |-> "x", shape |-> "none", amp |-> 0, wrap |-> TRUE] :
        p0 \in {300, 500}}
CflArgs == {CFL_DEFAULT, 500}

\* the 10 x 10 grid of spacing 0.1 with the fluid at rest: rho = p = 1, B = 0
RestSeed ==
    [base |-> UniformBase(1000, 1000, 0, 0), f |-> "rho", axis |-> "x", shape |-> "none", amp |-> 0, wrap |-> TRUE]
RestFlow == SeedData(FlowFieldCtor(10, 10, 100, 100, 0, 0).val, RestSeed)

CflFlows ==
    {SeedData(FlowFieldCtor(nx, ny, sp[1], sp[2], 0, 0).val, sd) :
        nx \in 3 .. MaxNx, ny \in {3, 4}, sp \in CflSpacings, sd \in CflSeeds}
    \cup {RestFlow}

InitCfl ==
    /\ pc = "ready"
    /\ flow \in CflFlows
    /\ exc = "none"
    /\ nu = 0
    /\ steps = 0
    /\ pre = <<>>
    /\ last = NoCall
    /\ ret = {}

NextCfl == \E c \in CflArgs : last = NoCall /\ Estimate(c)

SpecCfl == InitCfl /\ [][NextCfl]_vars

\* ------------------------------------------------------------------------
\* minmod on its own
\* ------------------------------------------------------------------------

MinmodArgs == {0 - 4000, 0 - 3000, 0 - 1000, 0 - 1, 0, 1, 1000, 2000, 3000, 4000, 4001}

InitMinmod ==
    /\ pc = "minmod"
    /\ flow = <<>>
    /\ exc = "none"
    /\ nu = 0
    /\ steps = 0
    /\ pre = <<>>
    /\ last = NoCall
    /\ ret = {}

\* double s = minmod(a, b)
CallMinmod(a, b) ==
    /\ pc = "minmod"
    /\ last = NoCall
    /\ ret' = {minmod(a, b)}
    /\ last' = [op |-> "minmod", a |-> a, b |-> b]
    /\ UNCHANGED <<pc, flow, exc, nu, steps, pre>>

NextMinmod == \E a \in MinmodArgs, b \in MinmodArgs : CallMinmod(a, b)

SpecMinmod == InitMinmod /\ [][NextMinmod]_vars

\* ------------------------------------------------------------------------
\* predicates on FlowFields
\* ------------------------------------------------------------------------

AllCells(fl) == Cells(fl.rho.nx, fl.rho.ny)
InnerCells(fl) == Interior(fl.rho.nx, fl.rho.ny)
Solved == last.op = "solve"

\* every value of the FlowField is finite, and rho and p are positive
ValidFlow(fl) ==
    \A c \in AllCells(fl) :
        /\ \A f \in FieldNames : IsFin(fl[f].data[c])
        /\ fl.rho.data[c] > 0
        /\ fl.p.data[c] > 0

\* the halo of one array mirrors the interior across the periodic seam
Mirrors(g) ==
    /\ \A j \in 0 .. g.ny - 1 :
          g.data[<<0, j>>] = g.data[<<g.nx - 2, j>>] /\ g.data[<<g.nx - 1, j>>] = g.data[<<1, j>>]
    /\ \A i \in 0 .. g.nx - 1 :
          g.data[<<i, 0>>] = g.data[<<i, g.ny - 2>>] /\ g.data[<<i, g.ny - 1>>] = g.data[<<i, 1>>]

PeriodicHalo(fl) == \A f \in FieldNames : Mirrors(fl[f])

\* sum of one array over the interior cells
RECURSIVE SumOver(_, _, _)
SumOver(g, k, acc) ==
    IF k = InteriorCount(g) THEN acc
    ELSE SumOver(g, k + 1, Add(acc, g.data[InteriorCell(g, k)]))

InteriorSum(g) == SumOver(g, 0, 0)

\* every cell holds rho and e at or above the floor
Floored(fl) ==
    \A c \in AllCells(fl) : Le(FLOOR, fl.rho.data[c]) /\ Le(FLOOR, fl.e.data[c])

\* the FlowField has the same value of every field in every cell, is at rest
\* and has psi = 0, rho > 0, p > 0, with e the total energy of that state
UniformAtRest(fl) ==
    LET o == <<0, 0>>
    IN /\ \A f \in FieldNames : \A c \in AllCells(fl) : fl[f].data[c] = fl[f].data[o]
       /\ fl.u.data[o] = 0 /\ fl.v.data[o] = 0 /\ fl.psi.data[o] = 0
       /\ fl.rho.data[o] > 0 /\ fl.p.data[o] > 0
       /\ fl.e.data[o] = SeedEnergy(fl.rho.data[o], 0, 0, fl.p.data[o], fl.bx.data[o], fl.by.data[o])

\* no correction of the last step was triggered
NoCorrection ==
    ~last.rho_floored /\ ~last.e_floored /\ ~last.energy_warned /\ ~last.ie_warned

\* the divergence the GLM loop of the last step used is zero in every cell
DivBZero == \A c \in AllCells(flow) : last.divB_new[c] = 0

\* the least element of a non-empty set of finite values
LeastOf(S) == CHOOSE x \in S : \A y \in S : x <= y

\* ------------------------------------------------------------------------
\* C1
\* ------------------------------------------------------------------------

\* C1, amended: after solve_MHD on a FlowField whose values are all finite
\* with rho > 0 and p > 0, every cell, halo and corners included, has
\* rho >= floor and e >= floor, and the values are again finite with rho > 0
\* and p > 0, so that the same holds after every further step
C1_FloorsFromValidInput == Solved /\ ValidFlow(pre) => Floored(flow) /\ ValidFlow(flow)

\* a second step from a valid state in which the density floor was applied
C1_Witness == Solved /\ ValidFlow(pre) /\ steps >= 2 /\ last.rho_floored /\ Floored(flow)

\* C1 as stated: after solve_MHD, for any input FlowField, every cell has
\* rho >= floor and e >= floor
C1_FloorsFromAnyInput == Solved => Floored(flow)

\* ------------------------------------------------------------------------
\* C2
\* ------------------------------------------------------------------------

\* C2 as stated, for steps from a finite FlowField with rho > 0 and p > 0:
\* after solve_MHD the halo of every transported field (rho, u, v, p, bx, by
\* and psi) mirrors the interior across the periodic seam
C2_HaloMirrorsInterior == Solved /\ ValidFlow(pre) => \A f \in PrimNames : Mirrors(flow[f])

\* ------------------------------------------------------------------------
\* C3
\* ------------------------------------------------------------------------

\* C3 as stated: with viscosity 0, from a finite FlowField with rho > 0,
\* p > 0 and a periodic halo, and no density floor triggered, the sum of rho
\* over the interior cells is the same before and after one step (up to one
\* unit of rounding per cell)
C3_MassConserved ==
    Solved /\ last.nu = 0 /\ ValidFlow(pre) /\ PeriodicHalo(pre) /\ ~last.rho_floored
        => AbsI(InteriorSum(flow.rho) - InteriorSum(pre.rho)) <= InteriorCount(pre.rho)

\* ------------------------------------------------------------------------
\* C4
\* ------------------------------------------------------------------------

\* C4, amended: a uniform FlowField at rest with psi = 0, consistent e,
\* rho >= floor and p/(gamma-1) >= floor keeps every value in every cell
\* over a step with any dt and any viscosity >= 0, and no correction is
\* triggered
C4_UniformFixedPoint ==
    Solved /\ UniformAtRest(pre)
      /\ pre.rho.data[<<0, 0>>] >= FLOOR
      /\ Div(pre.p.data[<<0, 0>>], Sub(gamma_gas, ONE)) >= FLOOR
        => (\A f \in FieldNames : flow[f].data = pre[f].data) /\ NoCorrection

\* a magnetised uniform state stepped with viscosity and the larger timestep
C4_Witness ==
    Solved /\ UniformAtRest(pre) /\ pre.rho.data[<<0, 0>>] >= FLOOR
      /\ Div(pre.p.data[<<0, 0>>], Sub(gamma_gas, ONE)) >= FLOOR
      /\ pre.bx.data[<<0, 0>>] # 0 /\ last.nu > 0 /\ last.dt_in = 1000
      /\ flow.p.data = pre.p.data

\* C4 as stated: every uniform FlowField at rest with rho > 0 and p > 0 is a
\* fixed point and triggers no correction
C4_UniformFixedPointAnyPositive ==
    Solved /\ UniformAtRest(pre)
        => (\A f \in FieldNames : flow[f].data = pre[f].data) /\ NoCorrection

\* ------------------------------------------------------------------------
\* C5
\* ------------------------------------------------------------------------

PhysicalCandidates(fl) ==
    {LET cf == compute_fast_speed(fl.rho.data[c], fl.p.data[c], fl.bx.data[c], fl.by.data[c])
         tx == Div(fl.rho.dx, Add(Fabs(fl.u.data[c]), cf))
         ty == Div(fl.rho.dy, Add(Fabs(fl.v.data[c]), cf))
     IN IF tx <= ty THEN tx ELSE ty : c \in InnerCells(fl)}

\* C6: compute_cfl_timestep returns cfl_number * min(m, g), g = min(dx,dy)/CH,
\* m the least candidate of the interior, replaced by g when above 1.0; the
\* result is positive and at most cfl_number * g; on the 10 x 10 grid at rest
\* the physical bound, below g = 0.125, gives the result
C6_CflTimestep ==
    last.op = "cfl" =>
        LET g == Div(IF pre.rho.dx <= pre.rho.dy THEN pre.rho.dx ELSE pre.rho.dy, CH)
            physical == LeastOf(PhysicalCandidates(pre))
            m == IF physical > ONE THEN g ELSE physical
            expected == Mul(last.cfl_number, IF m <= g THEN m ELSE g)
        IN /\ ret = {expected}
           /\ expected > 0
           /\ expected <= Mul(last.cfl_number, g)
           /\ pre = RestFlow => g = 125 /\ physical < g /\ ret = {Mul(last.cfl_number, physical)}

\* the estimate on the 10 x 10 grid at rest with cfl_number 0.2
C6_Witness ==
    /\ last.op = "cfl" /\ pre = RestFlow /\ last.cfl_number = CFL_DEFAULT
    /\ ret = {Mul(CFL_DEFAULT, Div(100, Sqrt(gamma_gas)))}

\* ------------------------------------------------------------------------
\* C7
\* ------------------------------------------------------------------------

\* C7, amended: when divB_new is zero in every cell, the step leaves psi in
\* every cell at psi_pre - dt*CR*psi_pre, psi_pre being the value before the
\* source (flux-updated in the interior, the value at entry in the halo), so
\* that |psi| <= |psi_pre| with the sign kept
C7_DampingOfPreSourcePsi ==
    Solved /\ DivBZero =>
        \A c \in AllCells(flow) :
            /\ flow.psi.data[c] = Sub(last.psi_new[c], Mul(Mul(last.dt, CR), last.psi_new[c]))
            /\ AbsI(flow.psi.data[c]) <= AbsI(last.psi_new[c])
            /\ flow.psi.data[c] * last.psi_new[c] >= 0

\* a step with zero divergence in which the damping reduced a non-zero psi
C7_Witness ==
    Solved /\ DivBZero /\ ValidFlow(pre)
      /\ \E c \in AllCells(flow) :
            flow.psi.data[c] # 0 /\ AbsI(flow.psi.data[c]) < AbsI(last.psi_new[c])

\* C7 as stated, for steps from a finite FlowField with rho > 0 and p > 0:
\* when divB_new is zero in every cell, psi is (1 - dt*CR) times its
\* pre-source value and |psi| of no cell grows over the step
C7_PsiNeverGrows ==
    Solved /\ DivBZero /\ ValidFlow(pre) =>
        \A c \in AllCells(flow) :
            /\ flow.psi.data[c] = Sub(last.psi_new[c], Mul(Mul(last.dt, CR), last.psi_new[c]))
            /\ AbsI(flow.psi.data[c]) <= AbsI(pre.psi.data[c])

\* ------------------------------------------------------------------------
\* C8
\* ------------------------------------------------------------------------

\* C8 as stated: construction with nx < 3 or ny < 3, zero and negative sizes
\* included, fails with std::invalid_argument and yields no object; with
\* nx >= 3 and ny >= 3 it succeeds, the eight fields share the geometry, each
\* array is nx x ny and every value is 0
C8_ConstructionContract ==
    last.op = "construct" =>
        IF last.nx < 3 \/ last.ny < 3
        THEN pc = "failed" /\ exc = "invalid_argument" /\ flow = <<>>
        ELSE /\ pc = "built" /\ exc = "none"
             /\ \A f \in FieldNames :
                   /\ flow[f].nx = last.nx /\ flow[f].ny = last.ny
                   /\ flow[f].dx = SpacingDx /\ flow[f].dy = SpacingDy
                   /\ flow[f].x0 = 0 /\ flow[f].y0 = 0
                   /\ DOMAIN flow[f].data = Cells(last.nx, last.ny)
                   /\ \A c \in Cells(last.nx, last.ny) : flow[f].data[c] = 0

\* ------------------------------------------------------------------------
\* C9
\* ------------------------------------------------------------------------

WrappedPsiNew ==
    PeriodicY(PeriodicX(last.psi_new, flow.rho.nx, flow.rho.ny), flow.rho.nx, flow.rho.ny)

\* C11: after a step from a valid state, psi of every cell of the grid is
\* psi_pre - dt*c_h^2*divB_new - dt*c_r*psi_pre, where divB_new is the centred
\* difference at wrapped indices of the Bx and By the FlowField holds when
\* solve_MHD returns and psi_pre is the periodically wrapped flux-updated psi.
\* The GLM loop reads the temporaries bx_new, by_new and psi_new, whose halo
\* cells still hold the values of the entry state, so this does not hold.
C11_GlmFromWrappedFields ==
    Solved /\ ValidFlow(pre) =>
        \A c \in AllCells(flow) :
            flow.psi.data[c] =
                GlmSource(WrappedPsiNew[c], last.dt,
                          GlmDivB(flow.bx.data, flow.by.data, flow.rho, c[1], c[2]))

\* ------------------------------------------------------------------------
\* C12: the energy decomposition after a step, on cold magnetised flows
\* ------------------------------------------------------------------------

\* a cold flow: thermal pressure far below the magnetic and kinetic energy
ColdBase(u0) == [rho |-> 1000, u |-> u0, v |-> 0, p |-> 1, bx |-> 500, by |-> 300, psi |-> 0]
ColdSeeds ==
    {[base |-> ColdBase(u0), f |-> f, axis |-> "x", shape |-> "hump", amp |-> 500, wrap |-> TRUE] :
        u0 \in {0, 1000}, f \in {"rho", "u", "p", "bx"}}
ColdNx == {4, 5}
ColdNy == {3}

NextCold ==
    \/ \E nx \in ColdNx, ny \in ColdNy : Construct(nx, ny)
    \/ \E sd \in ColdSeeds : Seed(sd)
    \/ \E dt \in DtArgs : Solve(dt)

SpecCold == Init /\ [][NextCold]_vars

\* kinetic, magnetic and internal energy of a cell, from its stored values
KineticEnergy(fl, c) ==
    Mul(Mul(HALF, fl.rho.data[c]),
        Add(Mul(fl.u.data[c], fl.u.data[c]), Mul(fl.v.data[c], fl.v.data[c])))
MagneticEnergy(fl, c) ==
    Mul(HALF, Add(Mul(fl.bx.data[c], fl.bx.data[c]), Mul(fl.by.data[c], fl.by.data[c])))
InternalEnergy(fl, c) == Sub(Sub(fl.e.data[c], KineticEnergy(fl, c)), MagneticEnergy(fl, c))

\* C12: after a step from a valid state, every interior cell has
\* e >= 0.5*rho*(u^2+v^2) + 0.5*(bx^2+by^2) and
\* p = (gamma-1)*(e - 0.5*rho*(u^2+v^2) - 0.5*(bx^2+by^2)) on its post-step
\* values. The minimum-energy correction of the update loop compares e with
\* the kinetic energy of the entry velocity and the magnetic energy of the
\* entry field, so the internal energy recovered from the new velocity and
\* field can be negative; the commit loop then floors p and leaves e.
C12_EnergyDecomposition ==
    Solved /\ ValidFlow(pre) =>
        \A c \in InnerCells(flow) :
            /\ Le(Add(KineticEnergy(flow, c), MagneticEnergy(flow, c)), flow.e.data[c])
            /\ flow.p.data[c] = Mul(Sub(gamma_gas, ONE), InternalEnergy(flow, c))

\* ------------------------------------------------------------------------
\* C13: the parallel loops of one step, as reads and writes of locations
\* ------------------------------------------------------------------------

\* a location of the step is <<kind, name, i, j>>: kind "flow" is
\* flow.<name>.data[i][j], "sx" and "sy" are s<name>_x[i][j] and
\* s<name>_y[i][j], "new" is <name>_new[i][j]
NewNames == {"rho", "momx", "momy", "e", "bx", "by", "psi"}
ArrayNames ==
    ({"flow"} \X FieldNames) \cup ({"sx", "sy"} \X PrimNames) \cup ({"new"} \X NewNames)
Locations(nx, ny) == {<<a[1], a[2], c[1], c[2]>> : a \in ArrayNames, c \in Cells(nx, ny)}
At(kind, names, cells) == {<<kind, n, c[1], c[2]>> : n \in names, c \in cells}

\* the parallel loops of update_level in program order; each ends with the
\* implicit barrier of its omp parallel for
LoopNames ==
    <<"slope_x", "slope_y", "momentum", "update", "commit", "periodic_x", "periodic_y", "glm">>

\* the iterations of a loop, each named by its indices (i, j); the boundary
\* loops run over one index and the other is written as 0
Iterations(loop, nx, ny) ==
    CASE loop = "slope_x"    -> (1 .. nx - 2) \X (0 .. ny - 1)
      [] loop = "slope_y"    -> (0 .. nx - 1) \X (1 .. ny - 2)
      [] loop = "momentum"   -> Cells(nx, ny)
      [] loop = "update"     -> Interior(nx, ny)
      [] loop = "commit"     -> Interior(nx, ny)
      [] loop = "periodic_x" -> {0} \X (0 .. ny - 1)
      [] loop = "periodic_y" -> (0 .. nx - 1) \X {0}
      [] loop = "glm"        -> Cells(nx, ny)

\* the four neighbours of a cell
Cross(i, j) == {<<i + 1, j>>, <<i - 1, j>>, <<i, j + 1>>, <<i, j - 1>>}

\* the locations iteration (i, j) of a loop reads before it writes them
LoopReads(loop, i, j, nx, ny) ==
    CASE loop = "slope_x" ->
            At("flow", PrimNames, {<<i - 1, j>>, <<i, j>>, <<i + 1, j>>})
      [] loop = "slope_y" ->
            At("flow", PrimNames, {<<i, j - 1>>, <<i, j>>, <<i, j + 1>>})
      [] loop = "momentum" ->
            At("flow", {"rho", "u", "v"}, {<<i, j>>})
      [] loop = "update" ->
            At("flow", FieldNames, {<<i, j>>})
            \cup At("flow", PrimNames, Cross(i, j))
            \cup At("sx", PrimNames, {<<i - 1, j>>, <<i, j>>, <<i + 1, j>>})
            \cup At("sy", PrimNames, {<<i, j - 1>>, <<i, j>>, <<i, j + 1>>})
            \cup At("new", {"momx", "momy", "bx", "by"}, {<<i, j>>})
      [] loop = "commit" ->
            At("new", {"rho", "momx", "momy", "e", "bx", "by"}, {<<i, j>>})
      [] loop = "periodic_x" ->
            At("flow", FieldNames, {<<(nx + 0 - 2) % nx, j>>, <<(nx - 1 + 2) % nx, j>>})
      [] loop = "periodic_y" ->
            At("flow", FieldNames, {<<i, (ny + 0 - 2) % ny>>, <<i, (ny - 1 + 2) % ny>>})
      [] loop = "glm" ->
            At("new", {"bx"}, {<<(i + 1) % nx, j>>, <<(i - 1 + nx) % nx, j>>})
            \cup At("new", {"by"}, {<<i, (j + 1) % ny>>, <<i, (j - 1 + ny) % ny>>})
            \cup At("new", {"psi"}, {<<i, j>>})

\* variant: an update loop that stores the new density in flow.rho in place
LoopWrites_InPlace(loop, i, j, nx, ny) ==
    CASE loop = "slope_x"    -> At("sx", PrimNames, {<<i, j>>})
      [] loop = "slope_y"    -> At("sy", PrimNames, {<<i, j>>})
      [] loop = "momentum"   -> At("new", {"momx", "momy"}, {<<i, j>>})
      [] loop = "update"     -> At("new", NewNames \ {"rho"}, {<<i, j>>})
                                \cup At("flow", {"rho"}, {<<i, j>>})
      [] loop = "commit"     -> At("flow", {"rho", "u", "v", "bx", "by", "e", "p"}, {<<i, j>>})
      [] loop = "periodic_x" -> At("flow", FieldNames, {<<0, j>>, <<nx - 1, j>>})
      [] loop = "periodic_y" -> At("flow", FieldNames, {<<i, 0>>, <<i, ny - 1>>})
      [] loop = "glm"        -> At("flow", {"psi"}, {<<i, j>>})

\* the locations iteration (i, j) of a loop writes
LoopWrites(loop, i, j, nx, ny) ==
    CASE loop = "slope_x"    -> At("sx", PrimNames, {<<i, j>>})
      [] loop = "slope_y"    -> At("sy", PrimNames, {<<i, j>>})
      [] loop = "momentum"   -> At("new", {"momx", "momy"}, {<<i, j>>})
      [] loop = "update"     -> At("new", NewNames, {<<i, j>>})
      [] loop = "commit"     -> At("flow", {"rho", "u", "v", "bx", "by", "e", "p"}, {<<i, j>>})
      [] loop = "periodic_x" -> At("flow", FieldNames, {<<0, j>>, <<nx - 1, j>>})
      [] loop = "periodic_y" -> At("flow", FieldNames, {<<i, 0>>, <<i, ny - 1>>})
      [] loop = "glm"        -> At("flow", {"psi"}, {<<i, j>>})

\* the stored values are abstract: a value is a residue that depends on the
\* location written and on the location and the value of everything read
KindCode == [flow |-> 1, sx |-> 2, sy |-> 3, new |-> 4]
NameCode == [rho |-> 1, u |-> 2, v |-> 3, p |-> 4, e |-> 5, bx |-> 6, by |-> 7, psi |-> 8,
             momx |-> 9, momy |-> 10]
LocCode(l) == 1 + ((((KindCode[l[1]] * 11 + NameCode[l[2]]) * 7 + l[3]) * 7 + l[4]) % 241)

\* a number for each location, and the sum over the locations read, taken
\* by halving the range of the numbers
LocIndex(l) == ((KindCode[l[1]] * 11 + NameCode[l[2]]) * 8 + l[3]) * 8 + l[4]

RECURSIVE ReadSumIn(_, _, _, _)
ReadSumIn(mem, S, lo, hi) ==
    IF S = {} THEN 0
    ELSE IF Cardinality(S) = 1 THEN (LocCode(CHOOSE l \in S : TRUE) * (mem[CHOOSE l \in S : TRUE] + 1)) % 251
    ELSE (ReadSumIn(mem, {l \in S : LocIndex(l) <= (lo + hi) \div 2}, lo, (lo + hi) \div 2)
          + ReadSumIn(mem, {l \in S : LocIndex(l) > (lo + hi) \div 2}, (lo + hi) \div 2 + 1, hi)) % 251

ReadSum(mem, S) == ReadSumIn(mem, S, 0, 4095)

\* one iteration: every location it writes gets a value computed from what it read
StoreAll(mem, W, sum) ==
    [l \in DOMAIN mem |-> IF l \in W THEN (sum + LocCode(l)) % 251 ELSE mem[l]]
RunIteration(mem, loop, i, j, nx, ny) ==
    StoreAll(mem, LoopWrites(loop, i, j, nx, ny), ReadSum(mem, LoopReads(loop, i, j, nx, ny)))

\* the order of the sequential program: i outer, j inner
FirstOf(pending) ==
    CHOOSE c \in pending : \A d \in pending : c[1] < d[1] \/ (c[1] = d[1] /\ c[2] <= d[2])

\* the loop run in sequential order (the test on the domain makes the
\* memory after each iteration a computed value before the next one starts)
RunNext(mem, loop, c, nx, ny) == RunIteration(mem, loop, c[1], c[2], nx, ny)

RECURSIVE RunLoop(_, _, _, _, _)
RunLoop(mem, loop, pending, nx, ny) ==
    IF pending = {} \/ DOMAIN mem = {} THEN mem
    ELSE RunLoop(RunNext(mem, loop, FirstOf(pending), nx, ny),
                 loop, pending \ {FirstOf(pending)}, nx, ny)

RECURSIVE RunLoopsFrom(_, _, _, _)
RunLoopsFrom(mem, k, nx, ny) ==
    IF k > Len(LoopNames) \/ DOMAIN mem = {} THEN mem
    ELSE RunLoopsFrom(RunLoop(mem, LoopNames[k], Iterations(LoopNames[k], nx, ny), nx, ny),
                      k + 1, nx, ny)

\* the grids of the loop model and the memory at entry to the step
LoopGrids == {<<3, 3>>, <<4, 3>>, <<3, 4>>}
EntryMemory(nx, ny) == [l \in Locations(nx, ny) |-> LocCode(l) % 5]

InitLoops ==
    /\ pc = "loops"
    /\ \E g \in LoopGrids :
          /\ flow = EntryMemory(g[1], g[2])
          /\ pre = EntryMemory(g[1], g[2])
          /\ last = [op |-> "loop", k |-> 1, done |-> {}, nx |-> g[1], ny |-> g[2],
                     reordered |-> FALSE]
    /\ exc = "none"
    /\ nu = 10
    /\ steps = 0
    /\ ret = {}

\* a thread runs one pending iteration of the current loop
Iterate(c) ==
    /\ pc = "loops"
    /\ c \in Iterations(LoopNames[last.k], last.nx, last.ny) \ last.done
    /\ flow' = RunIteration(flow, LoopNames[last.k], c[1], c[2], last.nx, last.ny)
    /\ last' = [last EXCEPT !.done = @ \cup {c},
                            !.reordered = @ \/ c # FirstOf(Iterations(LoopNames[last.k], last.nx, last.ny) \ last.done)]
    /\ UNCHANGED <<pc, exc, nu, steps, pre, ret>>

\* the barrier at the end of a parallel loop: the next loop starts, or the
\* step returns
Barrier ==
    /\ pc = "loops"
    /\ last.done = Iterations(LoopNames[last.k], last.nx, last.ny)
    /\ IF last.k = Len(LoopNames)
       THEN /\ pc' = "returned"
            /\ last' = last
       ELSE /\ pc' = pc
            /\ last' = [last EXCEPT !.k = @ + 1, !.done = {}]
    /\ UNCHANGED <<flow, exc, nu, steps, pre, ret>>

NextLoops ==
    \/ \E c \in Cells(last.nx, last.ny) : Iterate(c)
    \/ Barrier

SpecLoops == InitLoops /\ [][NextLoops]_vars

\* no iteration of the loop reads or writes what another iteration writes
Independent(loop, nx, ny) ==
    \A a \in Iterations(loop, nx, ny), b \in Iterations(loop, nx, ny) :
        a # b =>
            LoopWrites(loop, a[1], a[2], nx, ny)
                \cap (LoopReads(loop, b[1], b[2], nx, ny) \cup LoopWrites(loop, b[1], b[2], nx, ny)) = {}

\* C13: in every parallel loop of the step no iteration reads a location that
\* another iteration of the loop writes and no two iterations write the same
\* location, and whatever order the iterations ran in, the memory when the
\* step returns is the one the sequential order produces (grids from 3 x 3,
\* where both halo sources are the same cell). Disjoint footprints make every
\* interleaving of the iterations' accesses equal to running them one by one.
C13_IterationsIndependent ==
    /\ pc = "loops" /\ last.done = {} => Independent(LoopNames[last.k], last.nx, last.ny)
    /\ pc = "returned" => flow = RunLoopsFrom(pre, 1, last.nx, last.ny)

C13_Witness ==
    /\ pc = "returned"
    /\ last.reordered
    /\ last.nx = 3
    /\ flow = RunLoopsFrom(pre, 1, last.nx, last.ny)
    /\ flow # pre

\* ------------------------------------------------------------------------
\* C14: the limited slopes of the reconstruction
\* ------------------------------------------------------------------------

\* the slopes as described: zero in the two halo lines across the differenced
\* axis, minmod(backward difference, forward difference) in every other cell
DescribedSlopeX(g) ==
    [c \in Cells(g.nx, g.ny) |->
        IF c[1] = 0 \/ c[1] = g.nx - 1 THEN 0
        ELSE minmod(Sub(g.data[c], g.data[<<c[1] - 1, c[2]>>]),
                    Sub(g.data[<<c[1] + 1, c[2]>>], g.data[c]))]
DescribedSlopeY(g) ==
    [c \in Cells(g.nx, g.ny) |->
        IF c[2] = 0 \/ c[2] = g.ny - 1 THEN 0
        ELSE minmod(Sub(g.data[c], g.data[<<c[1], c[2] - 1>>]),
                    Sub(g.data[<<c[1], c[2] + 1>>], g.data[c]))]

\* C14: the slopes a step computes from its entry state are, for every field,
\* zero at i = 0 and i = nx-1 (x-slope, all j) and at j = 0 and j = ny-1
\* (y-slope, all i), and minmod(backward difference, forward difference) of
\* the entry values in every other cell, halo rows and columns along the
\* other axis included.
C14_SlopesZeroInHalo ==
    Solved =>
        \A f \in PrimNames :
            /\ SlopeX(pre[f]) = DescribedSlopeX(pre[f])
            /\ SlopeY(pre[f]) = DescribedSlopeY(pre[f])

\* a step from a state with a field whose x-slope is not zero in a halo row
\* (j = 0) and is zero in the halo column i = 0 although the field differs
\* between the columns 0 and 1
C14_Witness ==
    /\ Solved
    /\ ValidFlow(pre)
    /\ \E f \in PrimNames, c \in AllCells(pre) :
          /\ c[2] = 0
          /\ SlopeX(pre[f])[c] # 0
          /\ pre[f].data[<<0, 0>>] # pre[f].data[<<1, 0>>]
          /\ SlopeX(pre[f])[<<0, 0>>] = 0

\* ------------------------------------------------------------------------
\* main.cpp: the driving loop
\* ------------------------------------------------------------------------

\* const int max_steps, output_every (2000 and 20 in main, bounded here)
max_steps == 2
output_every == 2
\* const double t_end: 20.0 in main; 0.1 makes the loop end on time
TEndArgs == {100, 20 * SCALE}

\* variant: the timestep is never shortened to end at t_end
ShortenDt_Never(dt, t, t_end) == dt

\* if(t + dt > t_end) dt = t_end - t
ShortenDt(dt, t, t_end) == IF Lt(t_end, Add(t, dt)) THEN Sub(t_end, t) ELSE dt

\* variant: a driver that estimates the timestep with a CFL number of 0.5
DriverDt_Bold(fl, t, t_end) == ShortenDt(compute_cfl_timestep(fl, 500), t, t_end)

\* the dt main passes to solve_MHD
DriverDt(fl, t, t_end) == ShortenDt(compute_cfl_timestep(fl, CFL_DEFAULT), t, t_end)

\* the FlowFields main may start from: periodic initial conditions
MainNx == {3, 4}
MainNy == {3}
MainFlows ==
    {SeedData(FlowFieldCtor(nx, ny, SpacingDx, SpacingDy, 0, 0).val, sd) :
        nx \in MainNx, ny \in MainNy, sd \in {x \in PatternSeeds : x.wrap}}

\* double t = 0.0; int step = 0 (kept in steps); the locals of main are kept
\* in last: t, the dt passed to solve_MHD, the timestep update_level applied
\* (dt_used) and the sum of the timesteps applied so far
InitMain ==
    /\ pc = "loop"
    /\ flow \in MainFlows
    /\ exc = "none"
    /\ nu = 10
    /\ steps = 0
    /\ pre = <<>>
    /\ \E te \in TEndArgs :
          last = [op |-> "main", t |-> 0, t_end |-> te, dt |-> 0, dt_used |-> 0, applied |-> 0]
    /\ ret = {}

\* the loop condition: step <= max_steps && t < t_end
LoopCondition == steps <= max_steps /\ Lt(last.t, last.t_end)

\* one iteration of the loop of main
LoopBody ==
    /\ pc = "loop"
    /\ LoopCondition
    /\ \E dt \in {DriverDt(flow, last.t, last.t_end)} :
          \E r \in {solve_MHD(flow, dt, nu)} :
              /\ flow' = r.flow
              /\ last' = [last EXCEPT !.t = Add(@, dt), !.dt = dt, !.dt_used = r.dt,
                                      !.applied = Add(@, r.dt)]
              /\ ret' = IF steps % output_every = 0
                        THEN {compute_divergence_errors(r.flow)}
                        ELSE {}
    /\ pre' = flow
    /\ steps' = steps + 1
    /\ UNCHANGED <<pc, exc, nu>>

\* the loop condition fails: main leaves the loop
LoopExit ==
    /\ pc = "loop"
    /\ ~LoopCondition
    /\ pc' = "exit"
    /\ UNCHANGED <<flow, exc, nu, steps, pre, last, ret>>

NextMain == LoopBody \/ LoopExit

SpecMain == InitMain /\ [][NextMain]_vars

\* the control part of a step of main: the loop counter advances while the
\* loop condition holds, and the loop is left when it fails
MainProgress ==
    /\ pc = "loop"
    /\ \/ LoopCondition /\ steps' = steps + 1 /\ pc' = pc
       \/ ~LoopCondition /\ steps' = steps /\ pc' = "exit"

\* main is a sequential program and solve_MHD always returns: while main is
\* in the loop it takes its next step
SpecMainLive == SpecMain /\ WF_<<pc, steps>>(MainProgress)

\* C15: in the driving loop t never decreases and never exceeds t_end (the
\* last step is shortened to t_end - t), solve_MHD is called only while
\* t < t_end and at most max_steps + 1 times, and the loop terminates, with
\* t >= t_end or after max_steps + 1 calls.
C15_DriverTerminates ==
    /\ [][/\ Le(last.t, last'.t)
          /\ (steps' # steps => steps' = steps + 1 /\ Lt(last.t, last.t_end))]_vars
    /\ [](Le(last.t, last.t_end) /\ steps <= max_steps + 1)
    /\ [](pc = "exit" => Le(last.t_end, last.t) \/ steps = max_steps + 1)
    /\ <>(pc = "exit")

\* the loop ended on time in its second iteration, whose step was shortened
C15_Witness ==
    /\ pc = "exit"
    /\ last.t = last.t_end
    /\ steps = 2
    /\ Lt(last.dt, compute_cfl_timestep(pre, CFL_DEFAULT))

\* C18: in the driving loop the dt passed to solve_MHD never exceeds the CFL
\* bound update_level computes from the same state, so the timestep applied
\* is the dt passed, and the time accumulated by main equals the sum of the
\* timesteps applied to the FlowField.
C18_DriverDtWithinCfl ==
    steps > 0 =>
        /\ Le(last.dt, compute_cfl_timestep(pre, CFL_DEFAULT))
        /\ last.dt_used = last.dt
        /\ last.t = last.applied

\* after two iterations, the second with the unshortened CFL timestep
C18_Witness ==
    /\ steps = 2
    /\ last.dt = compute_cfl_timestep(pre, CFL_DEFAULT)
    /\ Lt(0, last.dt)
    /\ last.dt_used = last.dt
    /\ last.t = last.applied
    /\ Lt(last.dt, last.t)

\* ------------------------------------------------------------------------
\* C16: the flux through a face shared by two interior cells
\* ------------------------------------------------------------------------

\* the slopes of a state, as the step computes them
SlopesX(fl) == [f \in PrimNames |-> SlopeX(fl[f])] @@ <<>>
SlopesY(fl) == [f \in PrimNames |-> SlopeY(fl[f])] @@ <<>>

\* both cells of every interior pair compute the same flux at their face
SharedFacesAgree(fl, sx, sy) ==
    \A c \in InnerCells(fl) :
        /\ c[1] <= fl.rho.nx - 3 =>
              flux_xp(fl, sx, c[1], c[2]) = flux_xm(fl, sx, c[1] + 1, c[2])
        /\ c[2] <= fl.rho.ny - 3 =>
              flux_yp(fl, sy, c[1], c[2]) = flux_ym(fl, sy, c[1], c[2] + 1)

\* C16: in a step from a valid state, for every pair of adjacent interior cells the flux at the
\* shared face is the same for both: flux_xp of (i, j) is flux_xm of (i+1, j)
\* for 1 <= i <= nx-3, and flux_yp of (i, j) is flux_ym of (i, j+1) for
\* 1 <= j <= ny-3.
C16_SharedFaceFlux ==
    Solved /\ ValidFlow(pre) => SharedFacesAgree(pre, SlopesX(pre), SlopesY(pre))

\* a step from a state with two interior cells along x whose shared face has
\* limited slopes on both sides and carries mass
C16_Witness ==
    /\ Solved
    /\ ValidFlow(pre)
    /\ \E c \in InnerCells(pre) :
          /\ c[1] <= pre.rho.nx - 3
          /\ SlopeX(pre.rho)[c] # 0
          /\ flux_xp(pre, SlopesX(pre), c[1], c[2]).F_rho # 0
          /\ flux_xp(pre, SlopesX(pre), c[1], c[2]) = flux_xm(pre, SlopesX(pre), c[1] + 1, c[2])

\* ------------------------------------------------------------------------
\* C17: the face states passed to the HLL fluxes
\* ------------------------------------------------------------------------

\* the pairs of cells whose face an interior cell computes a flux for
FacesX(fl) ==
    UNION {{<<<<c[1], c[2]>>, <<c[1] + 1, c[2]>>>>, <<<<c[1] - 1, c[2]>>, <<c[1], c[2]>>>>} :
              c \in InnerCells(fl)}
FacesY(fl) ==
    UNION {{<<<<c[1], c[2]>>, <<c[1], c[2] + 1>>>>, <<<<c[1], c[2] - 1>>, <<c[1], c[2]>>>>} :
              c \in InnerCells(fl)}

\* SL and SR of compute_hll_flux_x / compute_hll_flux_y for the normal
\* velocities wL, wR of the two states
WaveSpeeds(L, R, wL, wR) ==
    [SL |-> StdMin(Sub(wL, compute_fast_speed(L.rho, L.p, L.bx, L.by)),
                   Sub(wR, compute_fast_speed(R.rho, R.p, R.bx, R.by))),
     SR |-> StdMax(Add(wL, compute_fast_speed(L.rho, L.p, L.bx, L.by)),
                   Add(wR, compute_fast_speed(R.rho, R.p, R.bx, R.by)))]

\* the branch that divides by SR - SL: neither SL > 0 nor SR < 0
HllBranch(w) == ~Lt(0, w.SL) /\ ~Lt(w.SR, 0)

PositiveFlow(fl) ==
    \A c \in AllCells(fl) : Lt(0, fl.rho.data[c]) /\ Lt(0, fl.p.data[c])
Between(x, a, b) == (Le(a, x) /\ Le(x, b)) \/ (Le(b, x) /\ Le(x, a))

\* the two states at the face between the cells a and b are positive, lie
\* between the values of a and b, and their wave speeds are ordered
FaceOk(fl, a, b, L, R, w) ==
    /\ Lt(0, L.rho) /\ Lt(0, L.p) /\ Lt(0, R.rho) /\ Lt(0, R.p)
    /\ \A f \in PrimNames :
          /\ Between(L[f], fl[f].data[a], fl[f].data[b])
          /\ Between(R[f], fl[f].data[a], fl[f].data[b])
    /\ HllBranch(w) => Lt(0, Sub(w.SR, w.SL))

FaceStatesOk(fl, sx, sy) ==
    /\ \A fc \in FacesX(fl) :
          FaceOk(fl, fc[1], fc[2], FacePlus(fl, sx, fc[1]), FaceMinus(fl, sx, fc[2]),
                 WaveSpeeds(FacePlus(fl, sx, fc[1]), FaceMinus(fl, sx, fc[2]),
                            FacePlus(fl, sx, fc[1]).u, FaceMinus(fl, sx, fc[2]).u))
    /\ \A fc \in FacesY(fl) :
          FaceOk(fl, fc[1], fc[2], FacePlus(fl, sy, fc[1]), FaceMinus(fl, sy, fc[2]),
                 WaveSpeeds(FacePlus(fl, sy, fc[1]), FaceMinus(fl, sy, fc[2]),
                            FacePlus(fl, sy, fc[1]).v, FaceMinus(fl, sy, fc[2]).v))

====
